---- MODULE Spec2Model ----
(***************************************************************************)
(* Reading Toolkit Generator (src/index.tsx).                              *)
(*                                                                         *)
(* Two components are modelled:                                            *)
(*   - App.handleGenerate: the asynchronous generation pipeline (content   *)
(*     request, hero illustration request, one illustration request per    *)
(*     sequence event) and the React state it publishes (loading,          *)
(*     statusMessage, toolkitData);                                        *)
(*   - SequenceCards: the drag-and-drop board (slots, pool, draggedItem)   *)
(*     with its handlers and its useEffect on data.sequenceEvents.         *)
(*                                                                         *)
(* One action is one synchronous stretch of code: an event handler, or the *)
(* continuation of handleGenerate between two awaits, together with the    *)
(* render and effects React runs for the state it set.                     *)
(***************************************************************************)
EXTENDS Integers, Sequences, FiniteSets, TLC

\* ---- bounds of the model ----
MaxEvents == 2      \* most sequence events a content response carries
MaxRuns == 2        \* most generation runs started
MaxMoves == 3       \* board operations explored per initialize of the board (Spec)
MaxCards == 3       \* most cards of the board explored alone (SpecBoard)
MaxBoardMoves == 7  \* board operations explored on one board (SpecBoard)
MaxLiveMoves == 2   \* board operations explored per initialize of the board (SpecLive)

\* ---- program constants ----
NumSlots == 4       \* useState([null, null, null, null])

Null == [null |-> TRUE]     \* JavaScript null: a value no object equals
Undefined == "undefined"    \* JavaScript undefined: an absent optional field
DataUri == "data:image"     \* `data:${mime};base64,${data}`

SlotIdx == 0 .. (NumSlots - 1)

VARIABLES
    loading,        \* App: useState(false)
    statusMessage,  \* App: useState("Generating Toolkit...")
    toolkitData,    \* App: useState<ToolkitData | null>(null)
    pc,             \* where handleGenerate is suspended: "idle" or the await
    run,            \* number of handleGenerate calls so far (the request id)
    textResponse,   \* handleGenerate local: what the content request came back with
    dataWithStoryImg, \* handleGenerate local (dataWithIds until the hero step)
    updatedEvents,  \* handleGenerate local: events pushed by the loop so far
    alerted,        \* the outer catch of the current/last run showed its alert
    issued,         \* history: the generateContent calls of the current/last run, in order
    outstanding,    \* the generateContent calls awaited and not yet settled
    active,         \* history: handleGenerate calls started and not yet ended
    slots,          \* SequenceCards: useState([null, null, null, null])
    pool,           \* SequenceCards: useState([])
    draggedItem,    \* SequenceCards: useState(null)
    lastOp,         \* history: the last board operation since the board mounted;
                    \* for a drop, its target slot and the draggedItem it found
    movesLeft       \* exploration budget: board operations still explored

vars == <<loading, statusMessage, toolkitData, pc, run, textResponse, dataWithStoryImg,
          updatedEvents, alerted, issued, outstanding, active,
          slots, pool, draggedItem, lastOp, movesLeft>>

appVars == <<loading, statusMessage, toolkitData, pc, run, textResponse, dataWithStoryImg,
             updatedEvents, alerted, issued, outstanding, active>>
boardVars == <<slots, pool, draggedItem>>

\* ---- helpers ----

\* [...a] with the element at 0-based position idx removed; Array.prototype.splice(idx, 1)
\* removes nothing when idx is past the end.
Splice(s, idx) ==
    IF idx + 1 > Len(s) THEN s
    ELSE [k \in 1 .. (Len(s) - 1) |-> IF k < idx + 1 THEN s[k] ELSE s[k + 1]]

\* A slip: unshift instead of push.
Push_Unshift(s, e) == <<e>> \o s

\* Array.prototype.push
Push(s, e) == Append(s, e)

\* [...events].sort(() => Math.random() - 0.5): some permutation of the events.
Shuffles(s) == {[k \in 1 .. Len(s) |-> s[p[k]]] : p \in Permutations(1 .. Len(s))}

EmptySlots == [k \in SlotIdx |-> Null]

\* The board is rendered only while toolkitData is non-null (toolkitData && ...).
Mounted == toolkitData # Null

\* extractImage(response): the first inline image payload as a data URI, else undefined.
extractImage(response) == IF response = "image" THEN DataUri ELSE Undefined

\* The history record of a board operation; target is -1 where there is none.
Op(name, target, found) == [op |-> name, target |-> target, found |-> found]
NoOp == Op("none", -1, Null)

\* textResponse before the content request has come back.
NoResponse == [kind |-> "pending", n |-> 0]

\* The calls of ai.models.generateContent: the content request, the hero image
\* request, and the image request for the event with a given id.
ContentReq == [kind |-> "content", id |-> <<>>]
HeroReq == [kind |-> "hero", id |-> <<>>]
EventReq(event) == [kind |-> "event", id |-> event.id]

\* ---- initial state ----
Init ==
    /\ loading = FALSE
    /\ statusMessage = <<"Generating Toolkit...">>
    /\ toolkitData = Null
    /\ pc = "idle"
    /\ run = 0
    /\ textResponse = NoResponse
    /\ dataWithStoryImg = Null
    /\ updatedEvents = <<>>
    /\ alerted = FALSE
    /\ issued = <<>>
    /\ outstanding = {}
    /\ active = 0
    /\ slots = EmptySlots
    /\ pool = <<>>
    /\ draggedItem = Null
    /\ lastOp = NoOp
    /\ movesLeft = MaxMoves

\* ---- App.handleGenerate ----

\* What the structured-content request can come back with: a request error, no
\* text, text JSON.parse rejects, JSON without a sequenceEvents array (the .map
\* call throws), or JSON with n sequence events (the code never checks n = 4).
ContentResponses ==
    {[kind |-> k, n |-> 0] : k \in {"error", "noText", "unparsable", "noEvents"}}
    \cup {[kind |-> "ok", n |-> n] : n \in 0 .. MaxEvents}

\* What an image request can come back with: an inline image payload, a response
\* without one, or a request error.
ImageResponses == {"image", "empty", "error"}

\* Date.now() when phase 1 of the current run ends: time advances between runs.
Now == run

\* `evt-${Date.now()}-${idx}`
EventId(now, idx) == <<"evt", now, idx>>

\* initialData.sequenceEvents of a response with n events: the generator's event
\* idx (0-based) of this request. The schema has no id; a generator that sends one
\* all the same is taken to send the same id in every event. No imageUrl yet.
generatedEvents(n) ==
    [k \in 1 .. n |-> [id |-> <<"gen", 0, 0>>,
                       text |-> <<"caption", run, k - 1>>,
                       imageUrl |-> Undefined]]

\* A slip: { id: ..., ...e }, the spread last, so the generator's id stays.
WithId_GeneratorWins(e, now, idx) == e

\* { ...e, id: `evt-${Date.now()}-${idx}` }
WithId(e, now, idx) == [e EXCEPT !.id = EventId(now, idx)]

\* initialData.sequenceEvents.map((e, idx) => ({...e, id: ...}))
eventsWithIds(n) ==
    [k \in 1 .. n |-> WithId(generatedEvents(n)[k], Now, k - 1)]

\* { ...initialData, sequenceEvents: eventsWithIds, childName }
dataWithIds(n) ==
    [request |-> run, storyImageUrl |-> Undefined, sequenceEvents |-> eventsWithIds(n)]

\* setStatusMessage(`Illustrating Card ${i + 1}/4...`)
CardStatus(i) == <<"Illustrating Card", i + 1, 4>>

\* A slip: the call is made while the earlier call is still awaited.
Issue_NoAwait(settled, req) ==
    /\ issued' = Append(issued, req)
    /\ outstanding' = outstanding \cup {req}

\* await ai.models.generateContent(...): the call is made and awaited.
Issue(settled, req) ==
    /\ issued' = Append(issued, req)
    /\ outstanding' = (outstanding \ {settled}) \cup {req}

\* The awaited call has settled and handleGenerate returns without another call.
Finish(settled) ==
    /\ outstanding' = outstanding \ {settled}
    /\ active' = active - 1
    /\ UNCHANGED issued

\* A slip: setLoading(false) at the end of the try block instead of in finally.
Abort_NoFinally(settled) ==
    /\ alerted' = TRUE
    /\ loading' = loading
    /\ pc' = "idle"
    /\ Finish(settled)

\* catch (error) { alert(...) } finally { setLoading(false) }
Abort(settled) ==
    /\ alerted' = TRUE
    /\ loading' = FALSE
    /\ pc' = "idle"
    /\ Finish(settled)

\* SequenceCards is unmounted (toolkitData = null): its state is dropped; a later
\* mount starts from the useState initial values.
Unmount ==
    /\ slots' = EmptySlots
    /\ pool' = <<>>
    /\ draggedItem' = Null
    /\ lastOp' = NoOp
    /\ movesLeft' = MaxMoves

\* A slip: the effect without setSlots([null, null, null, null]).
Initialize_KeepSlots(events) ==
    /\ slots' = slots
    /\ pool' \in Shuffles(events)
    /\ lastOp' = Op("initialize", -1, Null)
    /\ movesLeft' = MaxMoves

\* useEffect(..., [data.sequenceEvents]): runs when the component mounts and when
\* the sequenceEvents array is a new array. draggedItem is not touched.
Initialize(events) ==
    /\ slots' = EmptySlots
    /\ pool' \in Shuffles(events)
    /\ lastOp' = Op("initialize", -1, Null)
    /\ movesLeft' = MaxMoves

\* A slip: handleGenerate without setToolkitData(null).
HandleGenerate_KeepToolkit ==
    /\ ~loading
    /\ run < MaxRuns
    /\ loading' = TRUE
    /\ statusMessage' = <<"Writing Story...">>
    /\ pc' = "content"
    /\ run' = run + 1
    /\ textResponse' = NoResponse
    /\ dataWithStoryImg' = Null
    /\ updatedEvents' = <<>>
    /\ alerted' = FALSE
    /\ issued' = <<ContentReq>>
    /\ outstanding' = outstanding \cup {ContentReq}
    /\ active' = active + 1
    /\ UNCHANGED <<toolkitData, slots, pool, draggedItem, lastOp, movesLeft>>

\* A slip: a submit button that stays enabled while loading.
HandleGenerate_NoLock ==
    /\ run < MaxRuns
    /\ loading' = TRUE
    /\ statusMessage' = <<"Writing Story...">>
    /\ toolkitData' = Null
    /\ pc' = "content"
    /\ run' = run + 1
    /\ textResponse' = NoResponse
    /\ dataWithStoryImg' = Null
    /\ updatedEvents' = <<>>
    /\ alerted' = FALSE
    /\ issued' = <<ContentReq>>
    /\ outstanding' = outstanding \cup {ContentReq}
    /\ active' = active + 1
    /\ Unmount

\* The submit button is disabled while loading; handleGenerate up to its first await.
HandleGenerate ==
    /\ ~loading
    /\ run < MaxRuns
    /\ loading' = TRUE
    /\ statusMessage' = <<"Writing Story...">>
    /\ toolkitData' = Null
    /\ pc' = "content"
    /\ run' = run + 1
    /\ textResponse' = NoResponse
    /\ dataWithStoryImg' = Null
    /\ updatedEvents' = <<>>
    /\ alerted' = FALSE
    /\ issued' = <<ContentReq>>
    /\ outstanding' = outstanding \cup {ContentReq}
    /\ active' = active + 1
    /\ Unmount

\* handleGenerate from the content response to the hero request.
ContentResponse(r) ==
    /\ pc = "content"
    /\ textResponse' = r
    /\ IF r.kind # "ok"
       THEN /\ Abort(ContentReq)
            /\ UNCHANGED <<statusMessage, toolkitData, run, dataWithStoryImg,
                           updatedEvents, slots, pool, draggedItem, lastOp, movesLeft>>
       ELSE /\ toolkitData' = dataWithIds(r.n)
            /\ dataWithStoryImg' = dataWithIds(r.n)
            /\ statusMessage' = <<"Illustrating Story...">>
            /\ pc' = "hero"
            /\ Issue(ContentReq, HeroReq)
            /\ draggedItem' = Null
            /\ Initialize(eventsWithIds(r.n))
            /\ UNCHANGED <<loading, run, updatedEvents, alerted, active>>

\* setToolkitData({ ...dataWithStoryImg, sequenceEvents: updatedEvents }) and the
\* finally block; the new sequenceEvents array re-runs the board's effect.
FinalPublish(settled, data, events) ==
    /\ toolkitData' = [data EXCEPT !.sequenceEvents = events]
    /\ updatedEvents' = events
    /\ loading' = FALSE
    /\ pc' = "idle"
    /\ Finish(settled)
    /\ Initialize(events)
    /\ UNCHANGED <<draggedItem>>

\* handleGenerate from the hero response to the first event request (or to the end
\* when there is no event).
HeroResponse(r) ==
    /\ pc = "hero"
    /\ UNCHANGED textResponse
    /\ IF r = "error"
       THEN /\ Abort(HeroReq)
            /\ UNCHANGED <<statusMessage, toolkitData, run, dataWithStoryImg,
                           updatedEvents, slots, pool, draggedItem, lastOp, movesLeft>>
       ELSE /\ dataWithStoryImg' =
                  [dataWithStoryImg EXCEPT !.storyImageUrl = extractImage(r)]
            /\ IF Len(dataWithStoryImg.sequenceEvents) = 0
               THEN /\ FinalPublish(HeroReq, dataWithStoryImg', <<>>)
                    /\ UNCHANGED <<statusMessage, run, alerted>>
               ELSE /\ toolkitData' = dataWithStoryImg'
                    /\ statusMessage' = CardStatus(0)
                    /\ pc' = "seq"
                    /\ Issue(HeroReq, EventReq(dataWithStoryImg.sequenceEvents[1]))
                    /\ UNCHANGED <<loading, run, updatedEvents, alerted, active,
                                   slots, pool, draggedItem, lastOp, movesLeft>>

\* The loop body's continuation for event i = updatedEvents.length: push the event
\* with its image (try) or as it was (catch), then the next request or the end.
PushedEvent(event, r) ==
    IF r = "error" THEN event ELSE [event EXCEPT !.imageUrl = extractImage(r)]

\* A slip: the loop without its try/catch, a thrown error reaches the outer catch.
SeqResponse_AbortOnError(r) ==
    /\ pc = "seq"
    /\ UNCHANGED textResponse
    /\ LET i == Len(updatedEvents)
           event == dataWithStoryImg.sequenceEvents[i + 1]
           ue == Push(updatedEvents, PushedEvent(event, r))
       IN IF r = "error"
          THEN /\ Abort(EventReq(event))
               /\ UNCHANGED <<statusMessage, toolkitData, run, dataWithStoryImg,
                              updatedEvents, slots, pool, draggedItem, lastOp, movesLeft>>
          ELSE IF i + 1 < Len(dataWithStoryImg.sequenceEvents)
          THEN /\ updatedEvents' = ue
               /\ statusMessage' = CardStatus(i + 1)
               /\ Issue(EventReq(event), EventReq(dataWithStoryImg.sequenceEvents[i + 2]))
               /\ UNCHANGED <<loading, toolkitData, pc, run, dataWithStoryImg, alerted, active,
                              slots, pool, draggedItem, lastOp, movesLeft>>
          ELSE /\ FinalPublish(EventReq(event), dataWithStoryImg, ue)
               /\ UNCHANGED <<statusMessage, run, dataWithStoryImg, alerted>>

\* A slip: a failed event request is made again instead of pushing the event.
SeqResponse_Retry(r) ==
    /\ pc = "seq"
    /\ UNCHANGED textResponse
    /\ LET i == Len(updatedEvents)
           event == dataWithStoryImg.sequenceEvents[i + 1]
           ue == Push(updatedEvents, PushedEvent(event, r))
       IN IF r = "error"
          THEN /\ Issue(EventReq(event), EventReq(event))
               /\ UNCHANGED <<loading, statusMessage, toolkitData, pc, run, dataWithStoryImg,
                              updatedEvents, alerted, active,
                              slots, pool, draggedItem, lastOp, movesLeft>>
          ELSE IF i + 1 < Len(dataWithStoryImg.sequenceEvents)
          THEN /\ updatedEvents' = ue
               /\ statusMessage' = CardStatus(i + 1)
               /\ Issue(EventReq(event), EventReq(dataWithStoryImg.sequenceEvents[i + 2]))
               /\ UNCHANGED <<loading, toolkitData, pc, run, dataWithStoryImg, alerted, active,
                              slots, pool, draggedItem, lastOp, movesLeft>>
          ELSE /\ FinalPublish(EventReq(event), dataWithStoryImg, ue)
               /\ UNCHANGED <<statusMessage, run, dataWithStoryImg, alerted>>

SeqResponse(r) ==
    /\ pc = "seq"
    /\ UNCHANGED textResponse
    /\ LET i == Len(updatedEvents)
           event == dataWithStoryImg.sequenceEvents[i + 1]
           ue == Push(updatedEvents, PushedEvent(event, r))
       IN IF i + 1 < Len(dataWithStoryImg.sequenceEvents)
          THEN /\ updatedEvents' = ue
               /\ statusMessage' = CardStatus(i + 1)
               /\ Issue(EventReq(event), EventReq(dataWithStoryImg.sequenceEvents[i + 2]))
               /\ UNCHANGED <<loading, toolkitData, pc, run, dataWithStoryImg, alerted, active,
                              slots, pool, draggedItem, lastOp, movesLeft>>
          ELSE /\ FinalPublish(EventReq(event), dataWithStoryImg, ue)
               /\ UNCHANGED <<statusMessage, run, dataWithStoryImg, alerted>>

\* ---- SequenceCards ----

\* The drags the rendered board offers: a filled slot i drags (slots[i], 'slot', i),
\* pool position i (0-based) drags (pool[i], 'pool', i).
Draggables ==
    {[item |-> slots[k], source |-> "slot", index |-> k] : k \in {j \in SlotIdx : slots[j] # Null}}
    \cup {[item |-> pool[k], source |-> "pool", index |-> k - 1] : k \in 1 .. Len(pool)}

\* A board operation of the user: the board is on screen (and the model still
\* explores board operations).
UserCan == Mounted /\ movesLeft > 0

Moved(name, target, found) ==
    /\ lastOp' = Op(name, target, found)
    /\ movesLeft' = movesLeft - 1

\* handleDragStart: setDraggedItem({ item, source, index })
BeginDrag(d) ==
    /\ UserCan
    /\ d \in Draggables
    /\ draggedItem' = d
    /\ Moved("beginDrag", -1, Null)
    /\ UNCHANGED <<slots, pool>>
    /\ UNCHANGED appVars

\* array[i] read for truthiness: an index the array does not have reads undefined,
\* which is falsy as null is.
ArrayGet(s, i) == IF i \in DOMAIN s THEN s[i] ELSE Null

\* array[i] = v: an index at or past the length grows the array (the holes read as
\* undefined, falsy as null); a negative index sets a property that no code reads
\* and a copy [...array] drops, the elements stay as they are.
ArraySet(s, i, v) ==
    IF i \in DOMAIN s THEN [s EXCEPT ![i] = v]
    ELSE IF i < 0 THEN s
    ELSE [k \in 0 .. i |-> IF k \in DOMAIN s THEN s[k] ELSE IF k = i THEN v ELSE Null]

\* handleDropOnSlot as a function of the state it reads: the slots, pool and
\* draggedItem it sets.
\* Lines 356-378: the handler past its guard, with a transaction d.
MoveToSlot(s, p, d, targetSlotIndex) ==
    LET targetItem == ArrayGet(s, targetSlotIndex)
        pool1 == IF d.source = "pool" THEN Splice(p, d.index) ELSE p
        slots1 == IF d.source = "pool" THEN s ELSE [s EXCEPT ![d.index] = Null]
        pool2 == IF targetItem # Null THEN Push(pool1, targetItem) ELSE pool1
        slots2 == ArraySet(slots1, targetSlotIndex, d.item)
    IN [slots |-> slots2, pool |-> pool2, draggedItem |-> Null]

DropOnSlotResult(s, p, d, targetSlotIndex) ==
    IF d = Null THEN [slots |-> s, pool |-> p, draggedItem |-> d]
    ELSE MoveToSlot(s, p, d, targetSlotIndex)

DropOnSlot(targetSlotIndex) ==
    /\ UserCan
    /\ LET res == DropOnSlotResult(slots, pool, draggedItem, targetSlotIndex)
       IN /\ slots' = res.slots
          /\ pool' = res.pool
          /\ draggedItem' = res.draggedItem
    /\ Moved("dropOnSlot", targetSlotIndex, draggedItem)
    /\ UNCHANGED appVars

\* A slip: a pool card dropped on the pool is moved to the end of the pool.
DropOnPoolResult_Reorder(s, p, d) ==
    IF d = Null THEN [slots |-> s, pool |-> p, draggedItem |-> d]
    ELSE IF d.source = "pool"
    THEN [slots |-> s, pool |-> Push(Splice(p, d.index), d.item), draggedItem |-> Null]
    ELSE [slots |-> [s EXCEPT ![d.index] = Null],
          pool |-> Push(p, d.item),
          draggedItem |-> Null]

\* A slip: unshift instead of push.
DropOnPoolResult_Prepend(s, p, d) ==
    IF d = Null THEN [slots |-> s, pool |-> p, draggedItem |-> d]
    ELSE IF d.source = "pool" THEN [slots |-> s, pool |-> p, draggedItem |-> d]
    ELSE [slots |-> [s EXCEPT ![d.index] = Null],
          pool |-> <<d.item>> \o p,
          draggedItem |-> Null]

\* handleDropOnPool as a function of the state it reads.
DropOnPoolResult(s, p, d) ==
    IF d = Null THEN [slots |-> s, pool |-> p, draggedItem |-> d]
    ELSE IF d.source = "pool" THEN [slots |-> s, pool |-> p, draggedItem |-> d]
    ELSE [slots |-> [s EXCEPT ![d.index] = Null],
          pool |-> Push(p, d.item),
          draggedItem |-> Null]

DropOnPool ==
    /\ UserCan
    /\ LET res == DropOnPoolResult(slots, pool, draggedItem)
       IN /\ slots' = res.slots
          /\ pool' = res.pool
          /\ draggedItem' = res.draggedItem
    /\ Moved("dropOnPool", -1, draggedItem)
    /\ UNCHANGED appVars

\* handleReset: the cards of the toolkit on screen, shuffled; draggedItem is not touched.
HandleReset ==
    /\ UserCan
    /\ slots' = EmptySlots
    /\ pool' \in Shuffles(toolkitData.sequenceEvents)
    /\ Moved("reset", -1, Null)
    /\ UNCHANGED draggedItem
    /\ UNCHANGED appVars

\* A drag that ends without a drop on a slot or on the pool: the cards register
\* onDragStart only, so no handler runs.
CancelDrag ==
    /\ UserCan
    /\ Moved("cancel", -1, Null)
    /\ UNCHANGED <<slots, pool, draggedItem>>
    /\ UNCHANGED appVars

Next ==
    \/ HandleGenerate
    \/ \E r \in ContentResponses : ContentResponse(r)
    \/ \E r \in ImageResponses : HeroResponse(r)
    \/ \E r \in ImageResponses : SeqResponse(r)
    \/ \E d \in Draggables : BeginDrag(d)
    \/ \E t \in SlotIdx : DropOnSlot(t)
    \/ DropOnPool
    \/ HandleReset
    \/ CancelDrag

Spec == Init /\ [][Next]_vars

\* Every call of the generation service returns or fails in the end: the
\* continuation of an awaited call runs once the call has settled.
\* The board operations are explored up to MaxLiveMoves after each initialization.
NextLive ==
    \/ HandleGenerate
    \/ \E r \in ContentResponses : ContentResponse(r)
    \/ \E r \in ImageResponses : HeroResponse(r)
    \/ \E r \in ImageResponses : SeqResponse(r)
    \/ /\ movesLeft > MaxMoves - MaxLiveMoves
       /\ \/ \E d \in Draggables : BeginDrag(d)
          \/ \E t \in SlotIdx : DropOnSlot(t)
          \/ DropOnPool
          \/ HandleReset
          \/ CancelDrag

SpecLive ==
    /\ Init
    /\ [][NextLive]_vars
    /\ WF_vars(\E r \in ContentResponses : ContentResponse(r))
    /\ WF_vars(\E r \in ImageResponses : HeroResponse(r))
    /\ WF_vars(\E r \in ImageResponses : SeqResponse(r))

\* ---- the board alone ----
\* A board as the first run leaves it when every request succeeded: n cards with
\* their illustrations, shuffled into the pool; only board operations follow.
fullEvents(n) == [k \in 1 .. n |-> [eventsWithIds(n)[k] EXCEPT !.imageUrl = DataUri]]

InitBoard ==
    /\ loading = FALSE
    /\ pc = "idle"
    /\ run = 1
    /\ alerted = FALSE
    /\ outstanding = {}
    /\ active = 0
    /\ \E n \in 1 .. MaxCards :
          /\ textResponse = [kind |-> "ok", n |-> n]
          /\ toolkitData = [request |-> 1, storyImageUrl |-> DataUri,
                            sequenceEvents |-> fullEvents(n)]
          /\ dataWithStoryImg = [request |-> 1, storyImageUrl |-> DataUri,
                                 sequenceEvents |-> eventsWithIds(n)]
          /\ updatedEvents = fullEvents(n)
          /\ issued = <<ContentReq, HeroReq>> \o [k \in 1 .. n |-> EventReq(fullEvents(n)[k])]
          /\ statusMessage = CardStatus(n - 1)
          /\ pool \in Shuffles(fullEvents(n))
    /\ slots = EmptySlots
    /\ draggedItem = Null
    /\ lastOp = Op("initialize", -1, Null)
    /\ movesLeft = MaxBoardMoves

NextBoard ==
    \/ \E d \in Draggables : BeginDrag(d)
    \/ \E t \in SlotIdx : DropOnSlot(t)
    \/ DropOnPool
    \/ HandleReset
    \/ CancelDrag

SpecBoard == InitBoard /\ [][NextBoard]_vars

\* ---- the drop handler with any index ----
\* handleDropOnSlot takes its index as a number; the rendered board passes 0..3.
\* Here the handler is also called with the indices next to that range.
OutOfRange == {-1, NumSlots}

NextAnyIndex ==
    \/ NextBoard
    \/ \E t \in OutOfRange : DropOnSlot(t)

SpecAnyIndex == InitBoard /\ [][NextAnyIndex]_vars

\* ---- properties ----

\* The cards of the toolkit on screen, and where a card id sits on the board.
SourceIds == {toolkitData.sequenceEvents[k].id : k \in 1 .. Len(toolkitData.sequenceEvents)}
SlotsOf(id) == {k \in SlotIdx : slots[k] # Null /\ slots[k].id = id}
PoolPlacesOf(id) == {k \in 1 .. Len(pool) : pool[k].id = id}
Occurrences(id) == Cardinality(SlotsOf(id)) + Cardinality(PoolPlacesOf(id))
Idle == draggedItem = Null
IsDrop(o) == o.op \in {"dropOnSlot", "dropOnPool"}

\* C1 (as claimed): outside an in-flight drag every source card is in exactly one
\* place of the board, a slot or the pool.
C1_EachCardExactlyOnce ==
    (Mounted /\ Idle) => \A id \in SourceIds : Occurrences(id) = 1

\* C2 (as claimed): a card dragged from slot i and dropped on slot i leaves slots
\* and pool as they were and clears the transaction.
C2_DropOnSelfUnchanged ==
    [][\A i \in SlotIdx :
         (/\ lastOp.op = "beginDrag"
          /\ draggedItem.source = "slot"
          /\ draggedItem.index = i
          /\ DropOnSlot(i))
         => (slots' = slots /\ pool' = pool /\ draggedItem' = Null)]_vars

\* C3 (as claimed): after every drop and after a cancelled drag no drag transaction
\* is recorded.
C3_IdleAfterDropOrCancel ==
    (IsDrop(lastOp) \/ lastOp.op = "cancel") => Idle

\* The ids on the board, place by place (<<>> for an empty slot).
SlotIds(s) == [k \in SlotIdx |-> IF s[k] = Null THEN <<>> ELSE s[k].id]

PoolIdSet(p) == {p[k].id : k \in 1 .. Len(p)}

\* C4 (as claimed): a step of the running pipeline after phase 1 (the hero or an
\* event illustration coming back, same toolkit) leaves every slot with the card it
\* held and the pool with the cards it held.
C4_PipelineLeavesBoard ==
    [][(pc \in {"hero", "seq"} /\ appVars' # appVars)
         => (SlotIds(slots') = SlotIds(slots) /\ PoolIdSet(pool') = PoolIdSet(pool))]_vars

\* C5 (as claimed): card B dragged from the pool and dropped on slot t that holds
\* another card A: t holds B, A is last in the pool, the pool holds no B, and the
\* other slots are as before.
C5_Swap ==
    [][\A t \in SlotIdx :
         (/\ lastOp.op = "beginDrag"
          /\ draggedItem.source = "pool"
          /\ slots[t] # Null
          /\ slots[t].id # draggedItem.item.id
          /\ DropOnSlot(t))
         => (/\ slots'[t] = draggedItem.item
             /\ Len(pool') > 0
             /\ pool'[Len(pool')] = slots[t]
             /\ \A k \in 1 .. Len(pool') : pool'[k].id # draggedItem.item.id
             /\ \A j \in SlotIdx \ {t} : slots'[j] = slots[j])]_vars

\* C6: a pool card dragged and dropped on the pool leaves the pool (contents and
\* order) and the slots as they were.
C6_PoolSelfDrop ==
    [][(/\ lastOp.op = "beginDrag"
        /\ draggedItem.source = "pool"
        /\ DropOnPool)
         => (pool' = pool /\ slots' = slots)]_vars

\* Reached: a pool card of a pool of several cards was just dropped on the pool.
C6_Witness ==
    /\ lastOp.op = "dropOnPool"
    /\ lastOp.found # Null
    /\ lastOp.found.source = "pool"
    /\ lastOp.found.index = 0
    /\ Len(pool) >= 2
    /\ movesLeft = MaxBoardMoves - 2

\* C7: a drop on the pool with a slot-origin transaction empties that slot, appends
\* the card to the pool (the earlier pool elements keep their places) and leaves the
\* other slots alone.
C7_SlotToPool ==
    [][(/\ draggedItem # Null
        /\ draggedItem.source = "slot"
        /\ DropOnPool)
         => (/\ slots'[draggedItem.index] = Null
             /\ pool' = Append(pool, draggedItem.item)
             /\ \A j \in SlotIdx \ {draggedItem.index} : slots'[j] = slots[j])]_vars

\* Reached: a card was just dropped from its slot on a pool that held other cards,
\* while another slot stays filled.
C7_Witness ==
    /\ lastOp.op = "dropOnPool"
    /\ lastOp.found # Null
    /\ lastOp.found.source = "slot"
    /\ slots[lastOp.found.index] = Null
    /\ Len(pool) >= 2
    /\ pool[Len(pool)] = lastOp.found.item
    /\ \E j \in SlotIdx : slots[j] # Null

\* C8 (as claimed): a drop on a slot or on the pool outside a drag transaction,
\* that is with none recorded or right after an earlier drop with no beginDrag in
\* between, changes neither slots, pool nor transaction.
C8_DropOutsideTransaction ==
    [][((Idle \/ IsDrop(lastOp)) /\ (DropOnPool \/ \E t \in SlotIdx : DropOnSlot(t)))
         => UNCHANGED <<slots, pool, draggedItem>>]_vars

\* C9: after initialize or reset every slot is empty and the pool holds each card
\* of the toolkit on screen exactly once.
C9_AllCardsInPool ==
    lastOp.op \in {"initialize", "reset"}
        => /\ slots = EmptySlots
           /\ Len(pool) = Len(toolkitData.sequenceEvents)
           /\ \A id \in SourceIds : Cardinality(PoolPlacesOf(id)) = 1

\* Reached: the board re-initialized, and reset, while a transaction from a filled
\* slot was still recorded (so the slot was filled before).
C9_Witness ==
    /\ lastOp.op \in {"initialize", "reset"}
    /\ draggedItem # Null
    /\ draggedItem.source = "slot"
    /\ Len(pool) >= 2

\* C10: once the content request came back without text or with text that does not
\* parse, the run is over with its alert, no image request is awaited and no
\* toolkit is on screen.
C10_ContentFailureAborts ==
    textResponse.kind \in {"noText", "unparsable"}
        => /\ pc = "idle"
           /\ toolkitData = Null
           /\ alerted
           /\ ~loading

\* Reached: the second run failed in its content phase.
C10_Witness ==
    /\ textResponse.kind \in {"noText", "unparsable"}
    /\ run = 2

\* ---- the pipeline's requests ----

\* The events of the toolkit on screen.
Events == IF Mounted THEN toolkitData.sequenceEvents ELSE <<>>

\* C11: the illustration request of one event coming back, with an image, without
\* one or with an error: the event is recorded with its illustration set exactly
\* when an image came, the events recorded before keep theirs, no alert is shown,
\* and the request of the next event is issued or, after the last event, the run
\* ends with the recorded events as the toolkit's events.
C11_EventFailureIsLocal ==
    [][\A r \in ImageResponses :
         (pc = "seq" /\ SeqResponse(r))
         => LET i == Len(updatedEvents)
                n == Len(dataWithStoryImg.sequenceEvents)
            IN /\ Len(updatedEvents') = i + 1
               /\ \A k \in 1 .. i : updatedEvents'[k] = updatedEvents[k]
               /\ updatedEvents'[i + 1].id = dataWithStoryImg.sequenceEvents[i + 1].id
               /\ updatedEvents'[i + 1].imageUrl = (IF r = "image" THEN DataUri ELSE Undefined)
               /\ ~alerted'
               /\ IF i + 1 < n
                  THEN /\ pc' = "seq"
                       /\ issued' = Append(issued, EventReq(dataWithStoryImg.sequenceEvents[i + 2]))
                  ELSE /\ pc' = "idle"
                       /\ ~loading'
                       /\ toolkitData'.sequenceEvents = updatedEvents'
                       /\ issued' = issued]_vars

\* Reached: a run ended without alert after the request of its first event failed
\* and the request of its second event, issued all the same, brought an image.
C11_Witness ==
    /\ pc = "idle"
    /\ ~alerted
    /\ Len(Events) = 2
    /\ Events[1].imageUrl = Undefined
    /\ Events[2].imageUrl = DataUri
    /\ issued[Len(issued)] = EventReq(Events[2])

\* C12 (as claimed): an alert of the outer catch is only ever shown for a failure
\* of phase 1; after a content response that parsed, the run issues the requests
\* of all events and ends without alert.
C12_OnlyPhase1Aborts ==
    /\ alerted => textResponse.kind # "ok"
    /\ (pc = "idle" /\ textResponse.kind = "ok")
          => Len(issued) = 2 + Len(Events)

\* C13 (as claimed): while the event requests run, the toolkit on screen shows the
\* outcome of every event request that has completed.
C13_PublishedAfterEachEvent ==
    pc = "seq" => \A k \in 1 .. Len(updatedEvents) : Events[k] = updatedEvents[k]

\* The order in which a run makes its calls: content, hero, then the events of the
\* toolkit in the toolkit's order.
RequestPlan ==
    <<ContentReq, HeroReq>> \o [k \in 1 .. Len(Events) |-> EventReq(Events[k])]

\* C14: at most one call is awaited at any time and it is the call made last; the
\* calls made so far are a prefix of content, hero, event 1, event 2, ... in the
\* toolkit's order, whatever the order of the cards on the board; the hero call
\* is made once the content call has come back, and the call of event i+1 once
\* the outcomes of the events 1..i are recorded.
C14_RequestsSequential ==
    /\ Cardinality(outstanding) <= 1
    /\ \A q \in outstanding : Len(issued) > 0 /\ q = issued[Len(issued)]
    /\ Len(issued) <= Len(RequestPlan)
    /\ \A k \in 1 .. Len(issued) : issued[k] = RequestPlan[k]
    /\ pc = "idle" => outstanding = {}
    /\ pc = "content" => (issued = <<ContentReq>> /\ outstanding = {ContentReq})
    /\ pc = "hero" => (/\ textResponse.kind = "ok"
                       /\ Len(issued) = 2
                       /\ outstanding = {HeroReq})
    /\ pc = "seq" => (/\ Len(issued) = Len(updatedEvents) + 3
                      /\ outstanding = {EventReq(Events[Len(updatedEvents) + 1])})

\* Reached: the call of the second event is awaited while the board shows the
\* second card before the first.
C14_Witness ==
    /\ pc = "seq"
    /\ Len(updatedEvents) = 1
    /\ outstanding = {EventReq(Events[2])}
    /\ Len(pool) = 2
    /\ pool[1].id = Events[2].id

\* C15: at most one handleGenerate is running; one is running exactly while
\* loading is true, and while loading is true no step starts another run.
C15_OnePipeline ==
    [][/\ active' <= 1
       /\ loading' <=> (active' = 1)
       /\ loading' <=> (pc' # "idle")
       /\ loading => run' = run]_vars

\* Reached: the second run is under way, after the first one ended.
C15_Witness ==
    /\ run = 2
    /\ loading
    /\ active = 1
    /\ pc = "hero"

\* C16: no call is made twice in a run; the outcome recorded for an event, and the
\* story illustration once the hero call is back, stay as they are for the rest of
\* the run, on the way to the toolkit and in it.
C16_NoRetries ==
    [][/\ \A j, k \in 1 .. Len(issued') : issued'[j] = issued'[k] => j = k
       /\ run' = run =>
            /\ Len(updatedEvents') >= Len(updatedEvents)
            /\ \A k \in 1 .. Len(updatedEvents) : updatedEvents'[k] = updatedEvents[k]
            /\ (pc = "seq" \/ (pc = "idle" /\ Mounted))
                  => (/\ Mounted'
                      /\ toolkitData'.storyImageUrl = toolkitData.storyImageUrl)
            /\ (pc = "idle" /\ Mounted) => toolkitData' = toolkitData]_vars

\* Reached: a run made its four calls and ended with the story illustration and the
\* illustration of the second card unset, and the board was used afterwards.
C16_Witness ==
    /\ pc = "idle"
    /\ Len(issued) = 4
    /\ toolkitData.storyImageUrl = Undefined
    /\ Events[1].imageUrl = DataUri
    /\ Events[2].imageUrl = Undefined
    /\ lastOp.op = "dropOnSlot"

\* The number of sequence events the schema's description asks for.
ExpectedEvents == 4

\* C17 (as claimed): a content response that parses but carries a number of events
\* other than four ends the run with the alert and no toolkit on screen.
C17_NonconformingAborts ==
    (textResponse.kind = "ok" /\ textResponse.n # ExpectedEvents)
        => /\ pc = "idle"
           /\ toolkitData = Null
           /\ alerted

\* The cards the board holds, in slots and pool.
BoardCards ==
    {slots[k] : k \in {j \in SlotIdx : slots[j] # Null}} \cup {pool[k] : k \in 1 .. Len(pool)}

\* C18: the toolkit on screen, its events and the cards on the board all come from
\* the current run's content response, and from the start of a run until its
\* content is published no toolkit is on screen.
C18_WhollyReplaced ==
    /\ pc = "content" => (toolkitData = Null /\ BoardCards = {})
    /\ Mounted =>
          /\ toolkitData.request = run
          /\ \A k \in 1 .. Len(Events) :
                /\ Events[k].id = EventId(run, k - 1)
                /\ Events[k].text = <<"caption", run, k - 1>>
          /\ \A c \in BoardCards : c.id[2] = run /\ c.text[2] = run
          /\ draggedItem # Null => draggedItem.item.id[2] = run

\* Reached: the second run's toolkit is on screen, with its illustrations.
C18_Witness ==
    /\ run = 2
    /\ pc = "idle"
    /\ Len(Events) = 2
    /\ toolkitData.storyImageUrl = DataUri
    /\ Events[2].imageUrl = DataUri

\* The copies of card id on the board.
BoardCopies(id) == {c \in BoardCards : c.id = id}

\* C19 (as claimed): within a run an illustration that is present stays present:
\* the story's, each event's in the toolkit, and each card's on the board.
C19_IllustrationsStay ==
    [][(run' = run /\ Mounted /\ Mounted')
         => /\ toolkitData.storyImageUrl = DataUri => toolkitData'.storyImageUrl = DataUri
            /\ \A k \in 1 .. Len(Events) :
                  Events[k].imageUrl = DataUri => Events'[k].imageUrl = DataUri
            /\ \A id \in SourceIds :
                  (/\ BoardCopies(id) # {}
                   /\ \A c \in BoardCopies(id) : c.imageUrl = DataUri)
                  => \A c \in BoardCopies(id)' : c.imageUrl = DataUri]_vars

\* C20 (as claimed): a drop on slot t with a pool-origin transaction takes out of
\* the pool one card with the id of the dragged card and no other (the card that
\* was in slot t, if any, is appended).
C20_RemovesDraggedCard ==
    [][\A t \in SlotIdx :
         (/\ draggedItem # Null
          /\ draggedItem.source = "pool"
          /\ DropOnSlot(t))
         => \E k \in PoolPlacesOf(draggedItem.item.id) :
               pool' = Splice(pool, k - 1)
                          \o (IF slots[t] = Null THEN <<>> ELSE <<slots[t]>>)]_vars

C22_OwnDistinctIds ==
    Mounted =>
      /\ \A k \in 1 .. Len(Events) :
            /\ Events[k].id = EventId(Now, k - 1)
            /\ Events[k].id # generatedEvents(Len(Events))[k].id
      /\ \A j, k \in 1 .. Len(Events) : Events[j].id = Events[k].id => j = k

\* Reached: the phase-1 publication of a toolkit of two events, whose generator
\* events carried one and the same id.
C22_Witness ==
    /\ pc = "hero"
    /\ Len(Events) = 2
    /\ generatedEvents(2)[1].id = generatedEvents(2)[2].id
    /\ issued = <<ContentReq, HeroReq>>

\* An event without its illustration reference, and a list of events without them.
Caption(e) == [id |-> e.id, text |-> e.text]
Captions(events) == [k \in 1 .. Len(events) |-> Caption(events[k])]

\* C23: from the phase-1 publication of a run on, every publication of the run has
\* the same events: as many, with the same ids and captions in the same order.
C23_SameEvents ==
    [][(run' = run /\ Mounted /\ Mounted') => Captions(Events') = Captions(Events)]_vars

\* Reached: the last publication of a run of two events, the first illustrated and
\* the request of the second failed, the board re-initialized by the publication.
C23_Witness ==
    /\ pc = "idle"
    /\ ~alerted
    /\ Len(Events) = 2
    /\ toolkitData.storyImageUrl = DataUri
    /\ Events[1].imageUrl = DataUri
    /\ Events[2].imageUrl = Undefined
    /\ lastOp.op = "initialize"

\* C24: when every call of the generation service settles, a run that has started
\* (loading true) comes to an end with loading false, the submit button enabled
\* again and no call awaited, whether it completes or aborts.
C24_PipelineTerminates ==
    loading ~> (~loading /\ pc = "idle" /\ outstanding = {} /\ active = 0)

\* Reached: a run that aborted in the hero phase has released loading.
C24_Witness ==
    /\ ~loading
    /\ alerted
    /\ textResponse.kind = "ok"
    /\ Len(Events) = 2
    /\ outstanding = {}

====
